---- MODULE Spec2Model ----
(***************************************************************************)
(* Model of the schema-enforcement and repair pipeline of the resume       *)
(* builder (src/llm_resume_builder.py) and of the request handler that     *)
(* drives it (src/main.py).                                                *)
(*                                                                         *)
(* JSON values are tagged records, the tag being the Python runtime type:  *)
(*   [t |-> "null"]              None                                      *)
(*   [t |-> "bool",  b |-> ..]   bool                                      *)
(*   [t |-> "int",   n |-> ..]   int                                       *)
(*   [t |-> "float", lex |-> ..] float (kept as its lexeme)                *)
(*   [t |-> "str",   s |-> ..]   str, a sequence of one-character strings  *)
(*   [t |-> "list",  l |-> ..]   list, a sequence of values                *)
(*   [t |-> "dict",  m |-> ..]   dict, a function from keys to values      *)
(* A raised exception is the value [t |-> "raise", e |-> <exception>].     *)
(***************************************************************************)
EXTENDS Integers, Sequences, FiniteSets, TLC

VARIABLES
    pc,          \* position of the request handler, or of the single call
    key,         \* sanitize_value's key
    schema,      \* the schema coerced against; DEFAULT_SCHEMA in the pipeline
    data,        \* the argument of the single call
    result,      \* the value returned (or exception raised) by the call
    request,     \* the kind of upload process_resume receives
    wpc,         \* position of the worker thread running generate_resume_schema
    envelope,    \* what the Model Backend answered
    output,      \* call_hf_api's return value
    raw,         \* safe_json_extract's return value
    normalized,  \* enforce_schema_format's return value
    cleaned,     \* deep_clean's return value
    response,    \* the HTTP response of process_resume
    heap,        \* the objects (dict, list) by address, where identity matters
    calls        \* the invocations that share the heap, each with its position

callVars == <<pc, key, schema, data, result>>
pipeVars == <<request, wpc, envelope, output, raw, normalized, cleaned, response>>
heapVars == <<heap, calls>>
vars == <<pc, key, schema, data, result, request, wpc, envelope, output, raw,
          normalized, cleaned, response, heap, calls>>

----------------------------------------------------------------------------
(* Values *)

Null == [t |-> "null"]
Bool(b) == [t |-> "bool", b |-> b]
Num(n) == [t |-> "int", n |-> n]
Str(s) == [t |-> "str", s |-> s]
List(l) == [t |-> "list", l |-> l]
Dict(m) == [t |-> "dict", m |-> m]
Raise(e) == [t |-> "raise", e |-> e]

EmptyFn == [k \in {} |-> Null]
EmptyStr == Str(<<>>)
EmptyList == List(<<>>)
EmptyDict == Dict(EmptyFn)

\* A variable that plays no part in the specification at hand.
Unused == [t |-> "unused"]

\* current_key=None
NoKey == "<None>"

isinstance(v, types) == v.t \in types

----------------------------------------------------------------------------
(* str methods used by the source *)

Whitespace == {" ", "\t", "\n", "\r"}

RECURSIVE lstrip(_)
lstrip(s) ==
    IF s # <<>> /\ Head(s) \in Whitespace THEN lstrip(Tail(s)) ELSE s

RECURSIVE rstrip(_)
rstrip(s) ==
    IF s # <<>> /\ s[Len(s)] \in Whitespace
    THEN rstrip(SubSeq(s, 1, Len(s) - 1))
    ELSE s

strip(s) == rstrip(lstrip(s))

\* s.replace(c, "")
remove_char(s, c) == SelectSeq(s, LAMBDA d : d # c)

----------------------------------------------------------------------------
(* sanitize_value *)

DateKeys == {"startDate", "endDate", "issueDate"}
ListKeys == {"socials", "links"}
DateLen == 7
DaySuffix == <<"-", "0", "1">>

\* The score rule with its two steps swapped: trim, then remove '%'.
sanitize_value_strip_first(k, value) ==
    IF k = "score" /\ isinstance(value, {"str"})
    THEN Str(remove_char(strip(value.s), "%"))
    ELSE IF k \in DateKeys /\ isinstance(value, {"str"})
    THEN IF Len(value.s) = DateLen THEN Str(value.s \o DaySuffix) ELSE value
    ELSE IF k \in ListKeys /\ ~isinstance(value, {"list"})
    THEN EmptyList
    ELSE IF k = "skillName"
    THEN IF isinstance(value, {"str"}) THEN value ELSE EmptyStr
    ELSE value

sanitize_value(k, value) ==
    IF k = "score" /\ isinstance(value, {"str"})
    THEN Str(strip(remove_char(value.s, "%")))
    ELSE IF k \in DateKeys /\ isinstance(value, {"str"})
    THEN IF Len(value.s) = DateLen THEN Str(value.s \o DaySuffix) ELSE value
    ELSE IF k \in ListKeys /\ ~isinstance(value, {"list"})
    THEN EmptyList
    ELSE IF k = "skillName"
    THEN IF isinstance(value, {"str"}) THEN value ELSE EmptyStr
    ELSE value

----------------------------------------------------------------------------
(* enforce_schema_format *)

RECURSIVE enforce_schema_format(_, _, _)

\* The loop body comparing the type of the value as it came, before
\* sanitize_value has run on it.
enforce_key_raw_type(d, schema_value, k) ==
    IF k \notin DOMAIN d.m
    THEN schema_value
    ELSE IF ~isinstance(schema_value, {"dict", "list"})
    THEN LET sanitized == sanitize_value(k, d.m[k])
         IN  IF schema_value # Null /\ d.m[k].t # schema_value.t
             THEN schema_value
             ELSE sanitized
    ELSE enforce_schema_format(d.m[k], schema_value, k)

\* The dictionary case's loop body: the result at one key of the schema.
enforce_key(d, schema_value, k) ==
    IF k \notin DOMAIN d.m
    THEN schema_value
    ELSE IF ~isinstance(schema_value, {"dict", "list"})
    THEN LET sanitized == sanitize_value(k, d.m[k])
         IN  IF schema_value # Null /\ sanitized.t # schema_value.t
             THEN schema_value
             ELSE sanitized
    ELSE enforce_schema_format(d.m[k], schema_value, k)

RECURSIVE enforce_items(_, _)

\* The list case keeping, and coercing, the elements that are not mappings.
enforce_items_keep_all(items, item_schema) ==
    IF items = <<>>
    THEN <<>>
    ELSE <<enforce_schema_format(Head(items), item_schema, NoKey)>>
             \o enforce_items(Tail(items), item_schema)

\* The list case coercing each item against the sequence schema instead of
\* its item template.
enforce_items_list_schema(items, item_schema) ==
    IF items = <<>>
    THEN <<>>
    ELSE IF isinstance(Head(items), {"dict"})
    THEN <<enforce_schema_format(Head(items), List(<<item_schema>>), NoKey)>>
             \o enforce_items(Tail(items), item_schema)
    ELSE enforce_items(Tail(items), item_schema)

\* The list case with an item template.
enforce_items(items, item_schema) ==
    IF items = <<>>
    THEN <<>>
    ELSE IF isinstance(Head(items), {"dict"})
    THEN <<enforce_schema_format(Head(items), item_schema, NoKey)>>
             \o enforce_items(Tail(items), item_schema)
    ELSE enforce_items(Tail(items), item_schema)

\* The dictionary case returning data that is not a mapping as it is.
enforce_schema_format_passthrough(d, s, current_key) ==
    IF isinstance(s, {"dict"}) /\ ~isinstance(d, {"dict"})
    THEN d
    ELSE IF isinstance(s, {"dict"})
    THEN Dict([k \in DOMAIN s.m |-> enforce_key(d, s.m[k], k)])
    ELSE IF isinstance(s, {"list"})
    THEN IF ~isinstance(d, {"list"})
         THEN EmptyList
         ELSE IF Len(s.l) = 0
         THEN List(SelectSeq(d.l, LAMBDA item : isinstance(item, {"dict", "str"})))
         ELSE List(enforce_items(d.l, s.l[1]))
    ELSE LET sanitized == sanitize_value(current_key, d)
         IN  IF s # Null /\ sanitized.t # s.t THEN s ELSE sanitized

\* The dictionary case iterating over the data's keys as well as the schema's.
enforce_schema_format_open(d, s, current_key) ==
    IF isinstance(s, {"dict"})
    THEN LET dd == IF isinstance(d, {"dict"}) THEN d ELSE EmptyDict
         IN  Dict([k \in DOMAIN s.m \cup DOMAIN dd.m |->
                     IF k \in DOMAIN s.m THEN enforce_key(dd, s.m[k], k) ELSE dd.m[k]])
    ELSE IF isinstance(s, {"list"})
    THEN IF ~isinstance(d, {"list"})
         THEN EmptyList
         ELSE IF Len(s.l) = 0
         THEN List(SelectSeq(d.l, LAMBDA item : isinstance(item, {"dict", "str"})))
         ELSE List(enforce_items(d.l, s.l[1]))
    ELSE LET sanitized == sanitize_value(current_key, d)
         IN  IF s # Null /\ sanitized.t # s.t THEN s ELSE sanitized

enforce_schema_format(d, s, current_key) ==
    IF isinstance(s, {"dict"})
    THEN LET dd == IF isinstance(d, {"dict"}) THEN d ELSE EmptyDict
         IN  Dict([k \in DOMAIN s.m |-> enforce_key(dd, s.m[k], k)])
    ELSE IF isinstance(s, {"list"})
    THEN IF ~isinstance(d, {"list"})
         THEN EmptyList
         ELSE IF Len(s.l) = 0
         THEN List(SelectSeq(d.l, LAMBDA item : isinstance(item, {"dict", "str"})))
         ELSE List(enforce_items(d.l, s.l[1]))
    ELSE LET sanitized == sanitize_value(current_key, d)
         IN  IF s # Null /\ sanitized.t # s.t THEN s ELSE sanitized

----------------------------------------------------------------------------
(* deep_clean *)

\* cleaned_value in ("", None, [], {})
Empties == {EmptyStr, Null, EmptyList, EmptyDict}

RECURSIVE deep_clean(_)

\* The emptiness test applied to the children before they are cleaned.
deep_clean_test_first(obj) ==
    IF isinstance(obj, {"dict"})
    THEN LET keep == {k \in DOMAIN obj.m : obj.m[k] \notin Empties}
         IN  Dict([k \in keep |-> deep_clean(obj.m[k])])
    ELSE IF isinstance(obj, {"list"})
    THEN LET kept == SelectSeq(obj.l, LAMBDA i : i \notin Empties)
         IN  List([i \in 1..Len(kept) |-> deep_clean(kept[i])])
    ELSE IF isinstance(obj, {"str"})
    THEN Str(strip(obj.s))
    ELSE obj

\* Numbers and booleans tested by truthiness, so that 0 and False are dropped.
Falsy == Empties \cup {Num(0), Bool(FALSE)}
deep_clean_falsy(obj) ==
    IF isinstance(obj, {"dict"})
    THEN LET c == [k \in DOMAIN obj.m |-> deep_clean(obj.m[k])]
             keep == {k \in DOMAIN obj.m : c[k] \notin Falsy}
         IN  Dict([k \in keep |-> c[k]])
    ELSE IF isinstance(obj, {"list"})
    THEN LET cleaned_list == [i \in 1..Len(obj.l) |-> deep_clean(obj.l[i])]
         IN  List(SelectSeq(cleaned_list, LAMBDA i : i \notin Falsy))
    ELSE IF isinstance(obj, {"str"})
    THEN Str(strip(obj.s))
    ELSE obj

deep_clean(obj) ==
    IF isinstance(obj, {"dict"})
    THEN LET c == [k \in DOMAIN obj.m |-> deep_clean(obj.m[k])]
             keep == {k \in DOMAIN obj.m : c[k] \notin Empties}
         IN  Dict([k \in keep |-> c[k]])
    ELSE IF isinstance(obj, {"list"})
    THEN LET cleaned_list == [i \in 1..Len(obj.l) |-> deep_clean(obj.l[i])]
         IN  List(SelectSeq(cleaned_list, LAMBDA i : i \notin Empties))
    ELSE IF isinstance(obj, {"str"})
    THEN Str(strip(obj.s))
    ELSE obj

----------------------------------------------------------------------------
(* json.loads, on a text given as a sequence of characters *)

JsonWhitespace == {" ", "\t", "\n", "\r"}
ControlChars == {"\t", "\n", "\r"}
Digits == {"0", "1", "2", "3", "4", "5", "6", "7", "8", "9"}
HexDigits == Digits \cup {"a", "b", "c", "d", "e", "f", "A", "B", "C", "D", "E", "F"}
DigitValue == [c \in Digits |->
    CASE c = "0" -> 0 [] c = "1" -> 1 [] c = "2" -> 2 [] c = "3" -> 3 [] c = "4" -> 4
      [] c = "5" -> 5 [] c = "6" -> 6 [] c = "7" -> 7 [] c = "8" -> 8 [] c = "9" -> 9]

\* The characters the one-letter escapes stand for.
BACKSLASH == [c \in {"\"", "\\", "/", "b", "f", "n", "r", "t"} |->
    CASE c = "b" -> "<BS>" [] c = "f" -> "\f" [] c = "n" -> "\n"
      [] c = "r" -> "\r" [] c = "t" -> "\t" [] OTHER -> c]

\* s[i:i+1]: the character at i, "" past the end.
At(s, i) == IF i >= 1 /\ i <= Len(s) THEN s[i] ELSE ""

\* s[i:i+len(lit)] == lit
Matches(s, i, lit) ==
    i + Len(lit) - 1 <= Len(s) /\ SubSeq(s, i, i + Len(lit) - 1) = lit

RECURSIVE skip_ws(_, _)
skip_ws(s, i) == IF At(s, i) \in JsonWhitespace THEN skip_ws(s, i + 1) ELSE i

RECURSIVE digits_end(_, _)
digits_end(s, i) == IF At(s, i) \in Digits THEN digits_end(s, i + 1) ELSE i

RECURSIVE int_of(_)
int_of(ds) ==
    IF ds = <<>> THEN 0
    ELSE 10 * int_of(SubSeq(ds, 1, Len(ds) - 1)) + DigitValue[ds[Len(ds)]]

\* A mapping key as one string.
RECURSIVE KeyOf(_)
KeyOf(cs) == IF cs = <<>> THEN "" ELSE Head(cs) \o KeyOf(Tail(cs))

Ok(v, end) == [ok |-> TRUE, v |-> v, end |-> end]
Fail(e) == [ok |-> FALSE, e |-> e]

\* From i, the place after the opening quote, to the place after the closing
\* one; acc is the content read so far.
RECURSIVE scanstring(_, _, _)
scanstring(s, i, acc) ==
    LET c == At(s, i)
        esc == At(s, i + 1)
    IN  IF c = "" THEN Fail("Unterminated string")
        ELSE IF c = "\"" THEN Ok(acc, i + 1)
        ELSE IF c \in ControlChars THEN Fail("Invalid control character")
        ELSE IF c # "\\" THEN scanstring(s, i + 1, Append(acc, c))
        ELSE IF esc = "" THEN Fail("Unterminated string")
        ELSE IF esc = "u"
        THEN IF \A j \in 2..5 : At(s, i + j) \in HexDigits
             THEN scanstring(s, i + 6,
                     Append(acc, "\\u" \o s[i + 2] \o s[i + 3] \o s[i + 4] \o s[i + 5]))
             ELSE Fail("Invalid \\uXXXX escape")
        ELSE IF esc \in DOMAIN BACKSLASH
        THEN scanstring(s, i + 2, Append(acc, BACKSLASH[esc]))
        ELSE Fail("Invalid \\escape")

\* NUMBER_RE at idx: the place after the longest match, idx when none.
match_number(s, idx) ==
    LET p == IF At(s, idx) = "-" THEN idx + 1 ELSE idx
        int_end == IF At(s, p) = "0" THEN p + 1 ELSE digits_end(s, p)
        frac_end == IF At(s, int_end) = "." /\ At(s, int_end + 1) \in Digits
                    THEN digits_end(s, int_end + 1)
                    ELSE int_end
        q == IF At(s, frac_end + 1) \in {"+", "-"} THEN frac_end + 2 ELSE frac_end + 1
        exp_end == IF At(s, frac_end) \in {"e", "E"} /\ At(s, q) \in Digits
                   THEN digits_end(s, q)
                   ELSE frac_end
    IN  IF At(s, p) \notin Digits
        THEN [end |-> idx]
        ELSE IF exp_end = int_end
        THEN [end |-> int_end,
              v |-> Num((IF p = idx THEN 1 ELSE -1) * int_of(SubSeq(s, p, int_end - 1)))]
        ELSE [end |-> exp_end,
              v |-> [t |-> "float", lex |-> SubSeq(s, idx, exp_end - 1)]]

Float(lex) == [t |-> "float", lex |-> lex]

RECURSIVE scan_once(_, _)
RECURSIVE object_pairs(_, _, _)
RECURSIVE array_items(_, _, _)

\* JSONObject, i being the place after "{".
JSONObject(s, i) ==
    LET j == skip_ws(s, i)
    IN  IF At(s, j) = "}" THEN Ok(EmptyDict, j + 1)
        ELSE IF At(s, j) # "\""
        THEN Fail("Expecting property name enclosed in double quotes")
        ELSE object_pairs(s, j + 1, EmptyFn)

\* One "key": value pair and what follows it, i being the place after the
\* key's opening quote.
object_pairs(s, i, acc) ==
    LET k == scanstring(s, i, <<>>)
        c == skip_ws(s, k.end)
        v == scan_once(s, skip_ws(s, c + 1))
        kk == KeyOf(k.v)
        acc2 == [x \in DOMAIN acc \cup {kk} |-> IF x = kk THEN v.v ELSE acc[x]]
        n == skip_ws(s, v.end)
        q == skip_ws(s, n + 1)
    IN  IF ~k.ok THEN k
        ELSE IF At(s, c) # ":" THEN Fail("Expecting ':' delimiter")
        ELSE IF ~v.ok THEN v
        ELSE IF At(s, n) = "}" THEN Ok(Dict(acc2), n + 1)
        ELSE IF At(s, n) # "," THEN Fail("Expecting ',' delimiter")
        ELSE IF At(s, q) # "\""
        THEN Fail("Expecting property name enclosed in double quotes")
        ELSE object_pairs(s, q + 1, acc2)

\* JSONArray, i being the place after "[".
JSONArray(s, i) ==
    LET j == skip_ws(s, i)
    IN  IF At(s, j) = "]" THEN Ok(EmptyList, j + 1) ELSE array_items(s, j, <<>>)

array_items(s, i, acc) ==
    LET v == scan_once(s, i)
        n == skip_ws(s, v.end)
    IN  IF ~v.ok THEN v
        ELSE IF At(s, n) = "]" THEN Ok(List(Append(acc, v.v)), n + 1)
        ELSE IF At(s, n) # "," THEN Fail("Expecting ',' delimiter")
        ELSE array_items(s, skip_ws(s, n + 1), Append(acc, v.v))

scan_once(s, idx) ==
    LET c == At(s, idx)
        m == match_number(s, idx)
        str == scanstring(s, idx + 1, <<>>)
    IN  IF c = "\"" THEN (IF str.ok THEN Ok(Str(str.v), str.end) ELSE str)
        ELSE IF c = "{" THEN JSONObject(s, idx + 1)
        ELSE IF c = "[" THEN JSONArray(s, idx + 1)
        ELSE IF Matches(s, idx, <<"n", "u", "l", "l">>) THEN Ok(Null, idx + 4)
        ELSE IF Matches(s, idx, <<"t", "r", "u", "e">>) THEN Ok(Bool(TRUE), idx + 4)
        ELSE IF Matches(s, idx, <<"f", "a", "l", "s", "e">>) THEN Ok(Bool(FALSE), idx + 5)
        ELSE IF m.end # idx THEN Ok(m.v, m.end)
        ELSE IF Matches(s, idx, <<"N", "a", "N">>) THEN Ok(Float(<<"N", "a", "N">>), idx + 3)
        ELSE IF Matches(s, idx, <<"I", "n", "f", "i", "n", "i", "t", "y">>)
        THEN Ok(Float(SubSeq(s, idx, idx + 7)), idx + 8)
        ELSE IF Matches(s, idx, <<"-", "I", "n", "f", "i", "n", "i", "t", "y">>)
        THEN Ok(Float(SubSeq(s, idx, idx + 8)), idx + 9)
        ELSE Fail("Expecting value")

\* json.loads(s): the value, or the JSONDecodeError raised.
json_loads(s) ==
    LET r == scan_once(s, skip_ws(s, 1))
    IN  IF ~r.ok THEN Raise("JSONDecodeError")
        ELSE IF skip_ws(s, r.end) # Len(s) + 1 THEN Raise("JSONDecodeError")
        ELSE r.v

----------------------------------------------------------------------------
(* safe_json_extract *)

\* len(re.findall(r'(?<!\\)"', raw))
unescaped_quotes(txt) ==
    Cardinality({i \in 1..Len(txt) : txt[i] = "\"" /\ (i = 1 \/ txt[i - 1] # "\\")})

\* raw.count(c)
count(txt, c) == Cardinality({i \in 1..Len(txt) : txt[i] = c})

\* Steps 1 and 2 without the final closing of the root object.
repaired_one_brace(text) ==
    LET stripped == rstrip(text)
        txt == IF unescaped_quotes(stripped) % 2 = 1
               THEN stripped \o <<"\"">>
               ELSE stripped
        fix1 == IF count(txt, "}") < count(txt, "{") THEN <<"}">> ELSE <<>>
        fix2 == fix1 \o (IF count(txt, "]") < count(txt, "[") THEN <<"]">> ELSE <<>>)
    IN  txt \o fix2

\* Steps 1 and 2: the text that is handed to json.loads.
repaired(text) ==
    LET raw0 == rstrip(text)
        txt == IF unescaped_quotes(raw0) % 2 = 1 THEN raw0 \o <<"\"">> ELSE raw0
        opens_curly == count(txt, "{")
        closes_curly == count(txt, "}")
        opens_square == count(txt, "[")
        closes_square == count(txt, "]")
        fix1 == IF closes_curly < opens_curly THEN <<"}">> ELSE <<>>
        fix2 == fix1 \o (IF closes_square < opens_square THEN <<"]">> ELSE <<>>)
        fix3 == fix2 \o (IF closes_curly + count(fix2, "}") < opens_curly
                         THEN <<"}">> ELSE <<>>)
    IN  txt \o fix3

\* Step 3 without its try/except.
safe_json_extract_uncaught(text) ==
    IF ~isinstance(text, {"str"})
    THEN Raise("AttributeError")
    ELSE json_loads(repaired(text.s))

\* text is call_hf_api's return value; a value without rstrip raises.
safe_json_extract(text) ==
    IF ~isinstance(text, {"str"})
    THEN Raise("AttributeError")
    ELSE LET parsed == json_loads(repaired(text.s))
         IN  IF parsed.t = "raise" THEN EmptyDict ELSE parsed

----------------------------------------------------------------------------
(* default_schema.DEFAULT_SCHEMA: the fields of the output document, with    *)
(* the defaults of the literal example that the prompt embeds.               *)

DatesSchema == Dict([startDate |-> Null, endDate |-> Null])
ExperienceSchema ==
    Dict([companyName |-> EmptyStr, companyAddress |-> EmptyStr, position |-> EmptyStr,
          dates |-> DatesSchema, workDescription |-> EmptyStr])
DEFAULT_SCHEMA ==
    Dict([resumeTitle |-> EmptyStr,
          resumeType |-> Str(<<"C", "l", "a", "s", "s", "i", "c">>),
          personalDetails |->
              Dict([fullName |-> EmptyStr, email |-> EmptyStr, phone |-> EmptyStr,
                    address |-> EmptyStr, about |-> EmptyStr,
                    socials |-> List(<<Dict([name |-> EmptyStr, link |-> EmptyStr])>>)]),
          educationDetails |->
              List(<<Dict([name |-> EmptyStr, degree |-> EmptyStr, dates |-> DatesSchema,
                           location |-> EmptyStr,
                           grades |-> Dict([type |-> Null, score |-> EmptyStr,
                                            message |-> EmptyStr])])>>),
          skills |-> List(<<Dict([skillName |-> EmptyStr])>>),
          professionalExperience |-> List(<<ExperienceSchema>>),
          projects |->
              List(<<Dict([title |-> EmptyStr, description |-> EmptyStr,
                           extraDetails |-> EmptyStr,
                           links |-> List(<<Dict([link |-> EmptyStr])>>)])>>),
          otherExperience |-> List(<<ExperienceSchema>>),
          certifications |->
              List(<<Dict([issuingAuthority |-> EmptyStr, title |-> EmptyStr,
                           issueDate |-> Null, link |-> EmptyStr])>>)])

----------------------------------------------------------------------------
(* call_hf_api *)

\* v[k], k being a string.
getitem(v, k) ==
    IF v.t = "raise" THEN v
    ELSE IF isinstance(v, {"dict"})
    THEN IF k \in DOMAIN v.m THEN v.m[k] ELSE Raise("KeyError")
    ELSE Raise("TypeError")

\* v[0]
getfirst(v) ==
    IF v.t = "raise" THEN v
    ELSE IF isinstance(v, {"dict"}) THEN Raise("KeyError")
    ELSE IF isinstance(v, {"list"})
    THEN IF v.l = <<>> THEN Raise("IndexError") ELSE v.l[1]
    ELSE IF isinstance(v, {"str"})
    THEN IF v.s = <<>> THEN Raise("IndexError") ELSE Str(<<v.s[1]>>)
    ELSE Raise("TypeError")

\* result["choices"][0]["message"]["content"]
choices_content(answer) ==
    getitem(getitem(getfirst(getitem(answer, "choices")), "message"), "content")

\* A dictionary with the key "choices" answered as if it had none.
call_hf_api_lenient(answer) ==
    IF answer.t = "raise" THEN answer
    ELSE IF isinstance(answer, {"dict"}) /\ "choices" \in DOMAIN answer.m
            /\ choices_content(answer).t = "raise"
    THEN EmptyStr
    ELSE IF isinstance(answer, {"dict"}) /\ "choices" \in DOMAIN answer.m
    THEN choices_content(answer)
    ELSE IF isinstance(answer, {"dict"}) /\ "generated_text" \in DOMAIN answer.m
    THEN answer.m["generated_text"]
    ELSE IF isinstance(answer, {"list"}) /\ answer.l = <<>>
    THEN Raise("IndexError")
    ELSE IF isinstance(answer, {"list"}) /\ isinstance(answer.l[1], {"dict"})
            /\ "generated_text" \in DOMAIN answer.l[1].m
    THEN answer.l[1].m["generated_text"]
    ELSE EmptyStr

\* answer is what requests.post(...).json() gives: the decoded body, or the
\* exception that the request or the decoding raises.
call_hf_api(answer) ==
    IF answer.t = "raise" THEN answer
    ELSE IF isinstance(answer, {"dict"}) /\ "choices" \in DOMAIN answer.m
    THEN choices_content(answer)
    ELSE IF isinstance(answer, {"dict"}) /\ "generated_text" \in DOMAIN answer.m
    THEN answer.m["generated_text"]
    ELSE IF isinstance(answer, {"list"}) /\ answer.l = <<>>
    THEN Raise("IndexError")
    ELSE IF isinstance(answer, {"list"}) /\ isinstance(answer.l[1], {"dict"})
            /\ "generated_text" \in DOMAIN answer.l[1].m
    THEN answer.l[1].m["generated_text"]
    ELSE Raise("ValueError")

----------------------------------------------------------------------------
(* schema.ResumeResponse: validation and model_dump(exclude_none=True) *)

PStr == [p |-> "str"]
PList(item) == [p |-> "list", item |-> item]
PModel(fields) == [p |-> "model", fields |-> fields]

SocialItem == PModel([name |-> PStr, link |-> PStr])
PersonalDetails ==
    PModel([fullName |-> PStr, email |-> PStr, phone |-> PStr, address |-> PStr,
            about |-> PStr, socials |-> PList(SocialItem)])
ExperienceDates == PModel([startDate |-> PStr, endDate |-> PStr])
ExperienceItem ==
    PModel([companyName |-> PStr, companyAddress |-> PStr, position |-> PStr,
            dates |-> ExperienceDates, workDescription |-> PStr])
EducationGrades == PModel([type |-> PStr, score |-> PStr, message |-> PStr])
EducationDates == PModel([startDate |-> PStr, endDate |-> PStr])
EducationItem ==
    PModel([name |-> PStr, degree |-> PStr, dates |-> EducationDates,
            location |-> PStr, grades |-> EducationGrades])
SkillItem == PModel([skillName |-> PStr])
ProjectLink == PModel([link |-> PStr])
ProjectItem ==
    PModel([title |-> PStr, description |-> PStr, extraDetails |-> PStr,
            links |-> PList(ProjectLink)])
CertificationItem ==
    PModel([issuingAuthority |-> PStr, title |-> PStr, issueDate |-> PStr, link |-> PStr])
ResumeResponse ==
    PModel([resumeTitle |-> PStr, resumeType |-> PStr, personalDetails |-> PersonalDetails,
            educationDetails |-> PList(EducationItem), skills |-> PList(SkillItem),
            professionalExperience |-> PList(ExperienceItem),
            projects |-> PList(ProjectItem), otherExperience |-> PList(ExperienceItem),
            certifications |-> PList(CertificationItem)])

\* Every field is Optional: None validates; extra keys are ignored.
RECURSIVE validates(_, _)
validates(v, ty) ==
    IF v = Null THEN TRUE
    ELSE IF ty.p = "str" THEN isinstance(v, {"str"})
    ELSE IF ty.p = "list"
    THEN isinstance(v, {"list"}) /\ \A i \in 1..Len(v.l) : validates(v.l[i], ty.item)
    ELSE /\ isinstance(v, {"dict"})
         /\ \A k \in DOMAIN v.m \cap DOMAIN ty.fields : validates(v.m[k], ty.fields[k])

RECURSIVE model_dump(_, _)
model_dump(v, ty) ==
    IF ty.p = "list" /\ v # Null
    THEN List([i \in 1..Len(v.l) |-> model_dump(v.l[i], ty.item)])
    ELSE IF ty.p = "model" /\ v # Null
    THEN LET keep == {k \in DOMAIN v.m \cap DOMAIN ty.fields : v.m[k] # Null}
         IN  Dict([k \in keep |-> model_dump(v.m[k], ty.fields[k])])
    ELSE v

\* _is_effectively_empty
is_effectively_empty(payload) ==
    \A k \in DOMAIN payload.m :
        LET v == payload.m[k]
        IN  \/ v = Null
            \/ isinstance(v, {"str"}) /\ strip(v.s) = <<>>
            \/ isinstance(v, {"list"}) /\ Len(v.l) = 0
            \/ isinstance(v, {"dict"}) /\ DOMAIN v.m = {}

----------------------------------------------------------------------------
(* Bounded input universes *)

\* Longest generated string, longest generated list, most keys of a
\* generated mapping.
MaxStrLen == 3
MaxItems == 1
MaxKeys == 1

SeqsUpTo(S, n) == UNION {[1..k -> S] : k \in 0..n}
MapsUpTo(K, S, n) == UNION {[D -> S] : D \in {E \in SUBSET K : Cardinality(E) <= n}}

\* Inputs of sanitize_value.
SanKeys == {"score", "startDate", "endDate", "issueDate", "socials", "links",
            "skillName", "name", NoKey}
SanAlphabet == {"9", "%", " "}
YearMonth == <<"2", "0", "2", "2", "-", "0", "8">>
SanStrings == SeqsUpTo(SanAlphabet, MaxStrLen)
                \cup {YearMonth, YearMonth \o DaySuffix, SubSeq(YearMonth, 1, 6),
                      YearMonth \o <<"-">>, <<"9", "6", "%">>,
                      <<" ", "%", "9", " ", "%", "6", "%", " ">>}
SanValues == {Str(s) : s \in SanStrings}
                \cup {Null, Num(0), Num(96), Bool(TRUE), EmptyList, EmptyDict,
                      List(<<Str(<<"9">>)>>), Dict([link |-> Str(<<"9">>)])}

\* Inputs of enforce_schema_format: schemas are templates (a sequence is
\* empty or holds item templates), data is any value.  KeyedSchemas and
\* KeyedData put one default, or one value, under each key that
\* sanitize_value knows; ListData holds longer sequences of mappings and
\* other elements.
MaxListLen == 3
FieldKeys == SanKeys \ {NoKey}
SchemaKeys == {"score", "name"}
SchemaPrims == {Null, EmptyStr, Str(<<"9", "%">>), Num(0)}
SchemaLevel1 == SchemaPrims
                  \cup {List(l) : l \in SeqsUpTo(SchemaPrims, 1)}
                  \cup {Dict(m) : m \in MapsUpTo(SchemaKeys, SchemaPrims, 2)}
KeyedDefaults == {Null, EmptyStr, Str(YearMonth), Str(<<" ", "9">>), Num(0),
                  Bool(FALSE), EmptyList}
KeyedSchemas == {Dict([k \in {f} |-> v]) : f \in FieldKeys, v \in KeyedDefaults}
Schemas == SchemaPrims
             \cup {List(l) : l \in SeqsUpTo(SchemaLevel1, 1)}
             \cup {Dict(m) : m \in MapsUpTo(SchemaKeys, SchemaLevel1, 1)}
             \cup {Dict(m) : m \in MapsUpTo(SchemaKeys, SchemaPrims, 2)}
             \cup {List(<<Dict([name |-> EmptyStr]), Dict([score |-> EmptyStr])>>)}
             \cup KeyedSchemas
             \cup {List(<<sch>>) : sch \in KeyedSchemas}

DataKeys == {"score", "name"}
DataPrims == {Null, Str(<<"9", "%">>), Num(0)}
DataLevel1 == DataPrims
                \cup {List(l) : l \in SeqsUpTo(DataPrims, MaxItems)}
                \cup {Dict(m) : m \in MapsUpTo(DataKeys, DataPrims, MaxKeys)}
KeyedValues == {Null, EmptyStr, Str(YearMonth), Str(<<"9", "%">>), Num(7),
                Bool(TRUE), EmptyList, EmptyDict}
KeyedData == {Dict([k \in {f} |-> v]) : f \in FieldKeys, v \in KeyedValues}
ListItems == {Dict([name |-> Str(<<"x">>)]), Dict([score |-> Str(<<"9", "%">>)]),
              Null, Num(0), List(<<EmptyDict>>)}
ListData == {List(l) : l \in SeqsUpTo(ListItems, MaxListLen)}
DataValues == DataPrims
                \cup {List(l) : l \in SeqsUpTo(DataLevel1, MaxItems)}
                \cup {Dict(m) : m \in MapsUpTo(DataKeys, DataLevel1, MaxKeys)}
                \cup KeyedData
                \cup ListData

\* Inputs of deep_clean.
CleanKeys == {"a", "b"}
CleanPrims == {Null, EmptyStr, Str(<<" ">>), Str(<<" ", "x", " ">>), Str(<<"x">>),
               Num(0), Bool(FALSE)}
CleanLevel1 == CleanPrims
                 \cup {List(l) : l \in SeqsUpTo(CleanPrims, MaxItems)}
                 \cup {Dict(m) : m \in MapsUpTo(CleanKeys, CleanPrims, MaxKeys)}
PruneExample ==
    Dict([a |-> EmptyStr, b |-> Dict([c |-> EmptyList]), d |-> Str(<<"x">>)])
PruneExampleResult == Dict([d |-> Str(<<"x">>)])
CleanExamples ==
    {PruneExample,
     Dict([a |-> List(<<Dict([b |-> List(<<Str(<<" ">>)>>)])>>), b |-> Num(0)]),
     List(<<List(<<List(<<Null>>)>>), Bool(FALSE), Str(<<" ", "x">>)>>),
     List(<<Dict([a |-> Dict([b |-> Dict([c |-> Str(<<" ">>)])])]), Num(0)>>)}
CleanValues == CleanPrims
                 \cup {List(l) : l \in SeqsUpTo(CleanPrims, MaxListLen)}
                 \cup {List(l) : l \in SeqsUpTo(CleanLevel1, MaxItems)}
                 \cup {Dict(m) : m \in MapsUpTo(CleanKeys, CleanLevel1, MaxKeys)}
                 \cup CleanExamples

\* Inputs of safe_json_extract: every text over RepairAlphabet up to
\* MaxTextLen characters, every prefix of the truncated example, and texts
\* cut at other depths.
MaxTextLen == 4
RepairAlphabet == {"{", "}", "[", "]", "\"", "\\", ",", " ", "a", "1"}
TruncatedExample ==
    <<"{", "\"", "r", "e", "s", "u", "m", "e", "T", "i", "t", "l",
      "e", "\"", ":", " ", "\"", "S", "W", "E", " ", "R", "e", "s",
      "u", "m", "e", "\"", ",", " ", "\"", "s", "k", "i", "l", "l",
      "s", "\"", ":", " ", "[", "{", "\"", "s", "k", "i", "l", "l",
      "N", "a", "m", "e", "\"", ":", " ", "\"", "G", "o", "\"", "}",
      "]", ",", " ", "\"", "p", "e", "r", "s", "o", "n", "a", "l",
      "D", "e", "t", "a", "i", "l", "s", "\"", ":", " ", "{", "\"",
      "f", "u", "l", "l", "N", "a", "m", "e", "\"", ":", " ", "\"",
      "A", ".", " ", "D", "e", "v", "\"">>
Prefixes(t) == {SubSeq(t, 1, n) : n \in 0..Len(t)}
PlainText == <<"S", "o", "r", "r", "y", ",", " ", "n", "o", " ", "J", "S", "O", "N", ".">>
DeeplyTruncated ==
    <<"{", "\"", "a", "\"", ":", "[", "{", "\"", "b", "\"", ":", "[", "{", "\"", "c",
      "\"", ":", "\"", "x">>
ArrayText == <<"[", "1", ",", " ", "2", "]">>
NumberText == <<"9", "6">>
ExampleTexts ==
    Prefixes(TruncatedExample) \cup {TruncatedExample \o <<"}", "}">>, PlainText,
                                     DeeplyTruncated, ArrayText, NumberText}
RepairTexts == SeqsUpTo(RepairAlphabet, MaxTextLen) \cup ExampleTexts

\* What the Model Backend may answer: the three envelopes that hold content,
\* envelopes in which none can be located, and the exceptions that
\* requests.post and response.json raise.
ChatEnvelope(content) ==
    Dict([choices |-> List(<<Dict([message |-> Dict([content |-> content])])>>)])
TextEnvelope(content) == Dict([generated_text |-> content])
ListEnvelope(content) == List(<<Dict([generated_text |-> content])>>)
Contents == {Str(t) : t \in ExampleTexts}
ErrorText == Str(<<"b", "u", "s", "y">>)
BadEnvelopes ==
    {Dict([error |-> ErrorText]), EmptyDict, EmptyList, Null, Num(5), ErrorText,
     List(<<ErrorText>>), List(<<EmptyDict>>), List(<<Dict([error |-> ErrorText])>>),
     Dict([choices |-> EmptyList]), Dict([choices |-> Null]), Dict([choices |-> ErrorText]),
     Dict([choices |-> List(<<EmptyDict>>)]), Dict([choices |-> List(<<Null>>)]),
     Dict([choices |-> List(<<Dict([message |-> Null])>>)]),
     Dict([choices |-> List(<<Dict([message |-> EmptyDict])>>)]),
     Dict([choices |-> List(<<Dict([message |-> ErrorText])>>)]),
     Dict([choices |-> Dict([message |-> Dict([content |-> ErrorText])])]),
     Dict([choices |-> EmptyList, generated_text |-> Str(<<"{", "}">>)])}
TransportFailures == {Raise("ConnectionError"), Raise("JSONDecodeError")}
Envelopes ==
    {ChatEnvelope(c) : c \in Contents \cup {Null, Num(5), EmptyDict}}
        \cup {TextEnvelope(c) : c \in {Str(TruncatedExample), Str(PlainText), Null}}
        \cup {ListEnvelope(c) : c \in {Str(TruncatedExample), Str(PlainText), Null}}
        \cup BadEnvelopes \cup TransportFailures

\* The uploads process_resume tells apart, each named by the first check it
\* fails.
RequestKinds == {"ok", "bad_secret", "not_pdf", "empty_file", "too_large",
                 "read_error", "no_text", "extract_error"}

\* No object is shared: values stand for themselves.
NoHeap == heap = <<>> /\ calls = <<>>

\* The pipeline's variables while a single function is exercised.
NoPipeline ==
    /\ request = "none"
    /\ wpc = "idle"
    /\ envelope = Unused
    /\ output = Unused
    /\ raw = Unused
    /\ normalized = Unused
    /\ cleaned = Unused
    /\ response = Unused

----------------------------------------------------------------------------
(* Specification of sanitize_value: one call on a drawn key and value *)

InitSanitize ==
    /\ NoPipeline
    /\ NoHeap
    /\ pc = "sanitize"
    /\ key \in SanKeys
    /\ data \in SanValues
    /\ schema = Unused
    /\ result = Unused

SanitizeCall ==
    /\ pc = "sanitize"
    /\ result' = sanitize_value(key, data)
    /\ pc' = "returned"
    /\ UNCHANGED <<key, schema, data>>
    /\ UNCHANGED pipeVars
    /\ UNCHANGED heapVars

SpecSanitize == InitSanitize /\ [][SanitizeCall]_vars

----------------------------------------------------------------------------
(* Specification of enforce_schema_format: one top-level call *)

InitCoerce ==
    /\ NoPipeline
    /\ NoHeap
    /\ pc = "coerce"
    /\ key = NoKey
    /\ schema \in Schemas
    /\ data \in DataValues \cup {schema}
    /\ result = Unused

CoerceCall ==
    /\ pc = "coerce"
    /\ result' = enforce_schema_format(data, schema, NoKey)
    /\ pc' = "returned"
    /\ UNCHANGED <<key, schema, data>>
    /\ UNCHANGED pipeVars
    /\ UNCHANGED heapVars

SpecCoerce == InitCoerce /\ [][CoerceCall]_vars

----------------------------------------------------------------------------
(* Specification of deep_clean: one call on a drawn value *)

InitClean ==
    /\ NoPipeline
    /\ NoHeap
    /\ pc = "clean"
    /\ key = NoKey
    /\ schema = Unused
    /\ data \in CleanValues
    /\ result = Unused

CleanCall ==
    /\ pc = "clean"
    /\ result' = deep_clean(data)
    /\ pc' = "returned"
    /\ UNCHANGED <<key, schema, data>>
    /\ UNCHANGED pipeVars
    /\ UNCHANGED heapVars

SpecClean == InitClean /\ [][CleanCall]_vars

----------------------------------------------------------------------------
(* Specification of safe_json_extract: one call on a drawn text *)

InitRepair ==
    /\ NoPipeline
    /\ NoHeap
    /\ pc = "repair"
    /\ key = NoKey
    /\ schema = Unused
    /\ data \in {Str(t) : t \in RepairTexts}
    /\ result = Unused

RepairCall ==
    /\ pc = "repair"
    /\ result' = safe_json_extract(data)
    /\ pc' = "returned"
    /\ UNCHANGED <<key, schema, data>>
    /\ UNCHANGED pipeVars
    /\ UNCHANGED heapVars

SpecRepair == InitRepair /\ [][RepairCall]_vars

----------------------------------------------------------------------------
(* The request: process_resume, and generate_resume_schema in its worker     *)
(* thread                                                                    *)

Response(status, kind, body) == [status |-> status, kind |-> kind, body |-> body]

\* generate_resume_schema, from the backend's answer to the returned value.
generate_resume_schema(answer) ==
    LET out == call_hf_api(answer)
        parsed == safe_json_extract(out)
    IN  IF out.t = "raise" THEN out
        ELSE IF parsed.t = "raise" THEN parsed
        ELSE deep_clean(enforce_schema_format(parsed, DEFAULT_SCHEMA, NoKey))

\* Step 5 of process_resume, on the value the worker returned.
validated_response(value) ==
    IF ~validates(value, ResumeResponse)
    THEN Response(500, "Schema validation failed (LLM returned invalid JSON)", value)
    ELSE IF is_effectively_empty(model_dump(value, ResumeResponse))
    THEN Response(422, "No usable resume data could be extracted", Null)
    ELSE Response(200, "resume", model_dump(value, ResumeResponse))

\* Steps 4 and 5 of process_resume, on what the awaited call gave.
llm_response(value) ==
    IF value.t = "raise" \/ ~isinstance(value, {"dict"})
    THEN Response(500, "LLM generation failed", Null)
    ELSE validated_response(value)

\* Steps 0 to 3 of process_resume: the response to an upload that is turned
\* away.
rejection(kind) ==
    CASE kind = "bad_secret" -> Response(401, "Unauthorized", Null)
      [] kind = "not_pdf" -> Response(400, "Uploaded file must be a PDF", Null)
      [] kind = "empty_file" -> Response(422, "Empty PDF uploaded", Null)
      [] kind = "too_large" -> Response(413, "PDF file too large", Null)
      [] kind = "read_error" -> Response(500, "PDF read failed", Null)
      [] kind = "no_text" ->
            Response(422, "Could not extract meaningful text from the uploaded PDF", Null)
      [] kind = "extract_error" -> Response(500, "PDF extraction failed", Null)

Init ==
    /\ NoHeap
    /\ pc = "request"
    /\ request \in RequestKinds
    /\ wpc = "idle"
    /\ schema = DEFAULT_SCHEMA
    /\ key = NoKey
    /\ data = Unused
    /\ result = Unused
    /\ envelope = Unused
    /\ output = Unused
    /\ raw = Unused
    /\ normalized = Unused
    /\ cleaned = Unused
    /\ response = Unused

\* process_resume up to the await: an upload is turned away, or the worker
\* thread is started.
Validate ==
    /\ pc = "request"
    /\ IF request = "ok"
       THEN pc' = "await_llm" /\ wpc' = "call" /\ UNCHANGED response
       ELSE pc' = "done" /\ response' = rejection(request) /\ UNCHANGED wpc
    /\ UNCHANGED <<key, schema, data, result, request, envelope, output, raw,
                   normalized, cleaned>>
    /\ UNCHANGED heapVars

\* call_hf_api, in the worker thread.
CallBackend ==
    /\ wpc = "call"
    /\ \E answer \in Envelopes :
          /\ envelope' = answer
          /\ output' = call_hf_api(answer)
    /\ IF output'.t = "raise"
       THEN wpc' = "raised" /\ result' = output'
       ELSE wpc' = "repair" /\ UNCHANGED result
    /\ UNCHANGED <<pc, key, schema, data, request, raw, normalized, cleaned, response>>
    /\ UNCHANGED heapVars

Repair ==
    /\ wpc = "repair"
    /\ raw' = safe_json_extract(output)
    /\ IF raw'.t = "raise"
       THEN wpc' = "raised" /\ result' = raw'
       ELSE wpc' = "coerce" /\ UNCHANGED result
    /\ UNCHANGED <<pc, key, schema, data, request, envelope, output, normalized,
                   cleaned, response>>
    /\ UNCHANGED heapVars

Coerce ==
    /\ wpc = "coerce"
    /\ normalized' = enforce_schema_format(raw, schema, NoKey)
    /\ wpc' = "clean"
    /\ UNCHANGED <<pc, key, schema, data, result, request, envelope, output, raw,
                   cleaned, response>>
    /\ UNCHANGED heapVars

Clean ==
    /\ wpc = "clean"
    /\ cleaned' = deep_clean(normalized)
    /\ result' = cleaned'
    /\ wpc' = "returned"
    /\ UNCHANGED <<pc, key, schema, data, request, envelope, output, raw, normalized,
                   response>>
    /\ UNCHANGED heapVars

\* The awaited call's outcome taken whenever the worker has one, also after
\* the wait was given up.
Deliver_late ==
    /\ pc \in {"await_llm", "done"}
    /\ request = "ok"
    /\ wpc \in {"returned", "raised"}
    /\ response' = llm_response(result)
    /\ pc' = "done"
    /\ UNCHANGED <<key, schema, data, result, request, wpc, envelope, output, raw,
                   normalized, cleaned>>
    /\ UNCHANGED heapVars

\* The awaited call completes: steps 4 and 5 of process_resume.
Deliver ==
    /\ pc = "await_llm"
    /\ wpc \in {"returned", "raised"}
    /\ response' = llm_response(result)
    /\ pc' = "done"
    /\ UNCHANGED <<key, schema, data, result, request, wpc, envelope, output, raw,
                   normalized, cleaned>>
    /\ UNCHANGED heapVars

\* asyncio.wait_for gives up: the worker thread is left running.
Timeout ==
    /\ pc = "await_llm"
    /\ response' = Response(504, "LLM request timed out", Null)
    /\ pc' = "done"
    /\ UNCHANGED <<key, schema, data, result, request, wpc, envelope, output, raw,
                   normalized, cleaned>>
    /\ UNCHANGED heapVars

Next ==
    \/ Validate
    \/ CallBackend
    \/ Repair
    \/ Coerce
    \/ Clean
    \/ Deliver
    \/ Timeout

Spec == Init /\ [][Next]_vars

----------------------------------------------------------------------------
(* Objects with identity: the schema shared between invocations             *)
(*                                                                          *)
(* A dict or list is a cell of the heap, named by its address; a cell holds *)
(* its members by reference.  None, bool, int and str are immutable and     *)
(* stand for themselves.                                                    *)

Ref(a) == [t |-> "ref", a |-> a]
IsRef(r) == r.t = "ref"

\* type(r): the runtime type of what r names.
type_of(h, r) == IF IsRef(r) THEN h[r.a].t ELSE r.t

\* A newly created object.  (The folds below test Len(h) so that the heap
\* is evaluated at each step and not as one nested expression at the end.)
New(h, cell) == <<Append(h, cell), Ref(Len(h) + 1)>>

\* The value v built as fresh objects, as json.loads and the module-level
\* literal build it: the members first, the container last.
RECURSIVE Store(_, _)
RECURSIVE StoreFields(_, _, _, _)
RECURSIVE StoreItems(_, _, _)
StoreFields(h, m, keys, acc) ==
    IF keys = {} \/ Len(h) < 0
    THEN <<h, acc>>
    ELSE LET k == CHOOSE x \in keys : TRUE
             st == Store(h, m[k])
         IN  StoreFields(st[1], m, keys \ {k}, acc @@ (k :> st[2]))

StoreItems(h, l, acc) ==
    IF l = <<>> \/ Len(h) < 0
    THEN <<h, acc>>
    ELSE LET st == Store(h, Head(l))
         IN  StoreItems(st[1], Tail(l), Append(acc, st[2]))

Store(h, v) ==
    IF isinstance(v, {"dict"})
    THEN LET f == StoreFields(h, v.m, DOMAIN v.m, EmptyFn)
         IN  New(f[1], Dict(f[2]))
    ELSE IF isinstance(v, {"list"})
    THEN LET f == StoreItems(h, v.l, <<>>)
         IN  New(f[1], List(f[2]))
    ELSE <<h, v>>

\* The value that r names.
RECURSIVE Deref(_, _)
Deref(h, r) ==
    IF ~IsRef(r) THEN r
    ELSE IF h[r.a].t = "dict"
    THEN Dict([k \in DOMAIN h[r.a].m |-> Deref(h, h[r.a].m[k])])
    ELSE List([i \in 1..Len(h[r.a].l) |-> Deref(h, h[r.a].l[i])])

\* sanitize_value on references: the only object it creates is the [] that
\* replaces a value that is not a list.
heap_sanitize_value(h, k, value) ==
    IF k \in ListKeys /\ type_of(h, value) # "list"
    THEN New(h, EmptyList)
    ELSE IF IsRef(value)
    THEN <<h, IF k = "skillName" THEN EmptyStr ELSE value>>
    ELSE <<h, sanitize_value(k, value)>>

\* enforce_schema_format on references: result containers are new objects;
\* for a key the data lacks the schema's own member is placed in the result.
RECURSIVE heap_enforce_schema_format(_, _, _, _)
RECURSIVE heap_enforce_keys(_, _, _, _, _)
RECURSIVE heap_enforce_items(_, _, _, _)

heap_enforce_keys(h, d, s, keys, acc) ==
    IF keys = {} \/ Len(h) < 0
    THEN <<h, acc>>
    ELSE LET k == CHOOSE x \in keys : TRUE
             schema_value == s[k]
             st == IF k \notin DOMAIN d
                   THEN <<h, schema_value>>
                   ELSE IF type_of(h, schema_value) \notin {"dict", "list"}
                   THEN LET sn == heap_sanitize_value(h, k, d[k])
                        IN  IF schema_value # Null
                                 /\ type_of(sn[1], sn[2]) # type_of(h, schema_value)
                            THEN <<sn[1], schema_value>>
                            ELSE sn
                   ELSE heap_enforce_schema_format(h, d[k], schema_value, k)
         IN  heap_enforce_keys(st[1], d, s, keys \ {k}, acc @@ (k :> st[2]))

heap_enforce_items(h, items, item_schema, acc) ==
    IF items = <<>> \/ Len(h) < 0
    THEN <<h, acc>>
    ELSE IF type_of(h, Head(items)) = "dict"
    THEN LET st == heap_enforce_schema_format(h, Head(items), item_schema, NoKey)
         IN  heap_enforce_items(st[1], Tail(items), item_schema, Append(acc, st[2]))
    ELSE heap_enforce_items(h, Tail(items), item_schema, acc)

heap_enforce_schema_format(h, d, s, current_key) ==
    IF type_of(h, s) = "dict"
    THEN LET dd == IF type_of(h, d) = "dict" THEN h[d.a].m ELSE EmptyFn
             f == heap_enforce_keys(h, dd, h[s.a].m, DOMAIN h[s.a].m, EmptyFn)
         IN  New(f[1], Dict(f[2]))
    ELSE IF type_of(h, s) = "list"
    THEN IF type_of(h, d) # "list"
         THEN New(h, EmptyList)
         ELSE IF Len(h[s.a].l) = 0
         THEN New(h, List(SelectSeq(h[d.a].l,
                                    LAMBDA item : type_of(h, item) \in {"dict", "str"})))
         ELSE LET f == heap_enforce_items(h, h[d.a].l, h[s.a].l[1], <<>>)
              IN  New(f[1], List(f[2]))
    ELSE LET sn == heap_sanitize_value(h, current_key, d)
         IN  IF s # Null /\ type_of(sn[1], sn[2]) # s.t THEN <<sn[1], s>> ELSE sn

\* cleaned_value in ("", None, [], {})
IsEmptyRef(h, r) ==
    IF IsRef(r)
    THEN IF h[r.a].t = "dict" THEN DOMAIN h[r.a].m = {} ELSE h[r.a].l = <<>>
    ELSE r \in {EmptyStr, Null}

RECURSIVE heap_deep_clean(_, _)
RECURSIVE heap_clean_keys(_, _, _, _)
RECURSIVE heap_clean_items(_, _, _)

heap_clean_keys(h, m, keys, acc) ==
    IF keys = {} \/ Len(h) < 0
    THEN <<h, acc>>
    ELSE LET k == CHOOSE x \in keys : TRUE
             st == heap_deep_clean(h, m[k])
         IN  heap_clean_keys(st[1], m, keys \ {k},
                             IF IsEmptyRef(st[1], st[2]) THEN acc ELSE acc @@ (k :> st[2]))

heap_clean_items(h, l, acc) ==
    IF l = <<>> \/ Len(h) < 0
    THEN <<h, acc>>
    ELSE LET st == heap_deep_clean(h, Head(l))
         IN  heap_clean_items(st[1], Tail(l),
                              IF IsEmptyRef(st[1], st[2]) THEN acc ELSE Append(acc, st[2]))

\* deep_clean removing the empty members from the object it was given.
heap_deep_clean_in_place(h, obj) ==
    IF type_of(h, obj) = "dict"
    THEN LET f == heap_clean_keys(h, h[obj.a].m, DOMAIN h[obj.a].m, EmptyFn)
         IN  <<[f[1] EXCEPT ![obj.a] = Dict(f[2])], obj>>
    ELSE IF type_of(h, obj) = "list"
    THEN LET f == heap_clean_items(h, h[obj.a].l, <<>>)
         IN  <<[f[1] EXCEPT ![obj.a] = List(f[2])], obj>>
    ELSE IF isinstance(obj, {"str"})
    THEN <<h, Str(strip(obj.s))>>
    ELSE <<h, obj>>

\* deep_clean on references: the cleaned dict and list are new objects.
heap_deep_clean(h, obj) ==
    IF type_of(h, obj) = "dict"
    THEN LET f == heap_clean_keys(h, h[obj.a].m, DOMAIN h[obj.a].m, EmptyFn)
         IN  New(f[1], Dict(f[2]))
    ELSE IF type_of(h, obj) = "list"
    THEN LET f == heap_clean_items(h, h[obj.a].l, <<>>)
         IN  New(f[1], List(f[2]))
    ELSE IF isinstance(obj, {"str"})
    THEN <<h, Str(strip(obj.s))>>
    ELSE <<h, obj>>

----------------------------------------------------------------------------
(* Specification of the shared schema: invocations of repair, coerce and    *)
(* prune, one after another or interleaved, on one heap                     *)

\* The invocations in flight.
Calls == {1, 2}

NestedSchema ==
    Dict([name |-> EmptyStr,
          dates |-> Dict([startDate |-> Null]),
          links |-> List(<<Dict([link |-> EmptyStr])>>),
          socials |-> EmptyList])
HeapSchemas == {NestedSchema, DEFAULT_SCHEMA}

HeapTexts == {TruncatedExample, PlainText, ArrayText, <<"{", "}">>}
HeapData ==
    {Null, EmptyDict,
     Dict([name |-> Str(<<" ", "x">>)]),
     Dict([dates |-> Null, socials |-> Null]),
     Dict([dates |-> Dict([startDate |-> Str(YearMonth)])]),
     Dict([links |-> List(<<EmptyDict, Null, Dict([link |-> Str(<<"x">>)])>>)]),
     Dict([socials |-> List(<<Dict([name |-> EmptyStr]), Str(<<"x">>), Null>>)]),
     Dict([personalDetails |-> Dict([fullName |-> Str(<<"x", " ">>), socials |-> Null])]),
     Dict([skills |-> List(<<Dict([skillName |-> Num(7)]), EmptyDict>>)])}

NoCall == [pc |-> "idle", raw |-> Unused, normalized |-> Unused, cleaned |-> Unused]

\* The module is loaded: DEFAULT_SCHEMA names the root of the schema's
\* objects, which are the first of the heap.
InitShared ==
    /\ NoPipeline
    /\ pc = "loaded"
    /\ key = NoKey
    /\ data = Unused
    /\ result = Unused
    /\ \E s \in HeapSchemas :
          /\ heap = Store(<<>>, s)[1]
          /\ schema = Store(<<>>, s)[2]
    /\ calls = [i \in Calls |-> NoCall]

\* safe_json_extract: the parsed value is made of new objects.
HeapRepair(i) ==
    /\ calls[i].pc = "idle"
    /\ \E text \in HeapTexts :
          LET st == Store(heap, safe_json_extract(Str(text)))
          IN  /\ heap' = st[1]
              /\ calls' = [calls EXCEPT ![i].pc = "coerce", ![i].raw = st[2]]
    /\ UNCHANGED <<callVars, pipeVars>>

\* A caller hands enforce_schema_format or deep_clean a value of its own,
\* or the schema object itself.
HeapGiven(i) ==
    /\ calls[i].pc = "idle"
    /\ \E stage \in {"coerce", "prune"} :
          \/ \E d \in HeapData :
                LET st == Store(heap, d)
                IN  /\ heap' = st[1]
                    /\ calls' = [calls EXCEPT
                                   ![i].pc = stage,
                                   ![i].raw = IF stage = "coerce" THEN st[2] ELSE Unused,
                                   ![i].normalized = IF stage = "prune" THEN st[2] ELSE Unused]
          \/ /\ heap' = heap
             /\ calls' = [calls EXCEPT
                            ![i].pc = stage,
                            ![i].raw = IF stage = "coerce" THEN schema ELSE Unused,
                            ![i].normalized = IF stage = "prune" THEN schema ELSE Unused]
    /\ UNCHANGED <<callVars, pipeVars>>

HeapCoerce(i) ==
    /\ calls[i].pc = "coerce"
    /\ LET st == heap_enforce_schema_format(heap, calls[i].raw, schema, NoKey)
       IN  /\ heap' = st[1]
           /\ calls' = [calls EXCEPT ![i].pc = "prune", ![i].normalized = st[2]]
    /\ UNCHANGED <<callVars, pipeVars>>

HeapPrune(i) ==
    /\ calls[i].pc = "prune"
    /\ LET st == heap_deep_clean(heap, calls[i].normalized)
       IN  /\ heap' = st[1]
           /\ calls' = [calls EXCEPT ![i].pc = "done", ![i].cleaned = st[2]]
    /\ UNCHANGED <<callVars, pipeVars>>

NextShared ==
    \/ \E i \in Calls : HeapRepair(i)
    \/ \E i \in Calls : HeapGiven(i)
    \/ \E i \in Calls : HeapCoerce(i)
    \/ \E i \in Calls : HeapPrune(i)

SpecShared == InitShared /\ [][NextShared]_vars

----------------------------------------------------------------------------
(* C1: the coerced value has the container shape of the schema *)

IsContainer(v) == isinstance(v, {"dict", "list"})

RECURSIVE Shaped(_, _)
Shaped(r, s) ==
    IF isinstance(s, {"dict"})
    THEN /\ isinstance(r, {"dict"})
         /\ DOMAIN r.m = DOMAIN s.m
         /\ \A k \in DOMAIN s.m : Shaped(r.m[k], s.m[k])
    ELSE IF isinstance(s, {"list"})
    THEN /\ isinstance(r, {"list"})
         /\ Len(s.l) > 0 => \A i \in 1..Len(r.l) : Shaped(r.l[i], s.l[1])
    ELSE TRUE

\* C1: for every schema S and every input D, enforce_schema_format(D, S) is
\* a mapping with exactly S's keys wherever S is a mapping, and a sequence of
\* items shaped like the item template wherever S is a sequence with one.
C1_SameContainerShape ==
    pc = "returned" => Shaped(result, schema)

\* A mapping schema coerced against a mapping that has a key the schema does
\* not declare and lacks one it does.
C1_Witness ==
    /\ pc = "returned"
    /\ isinstance(schema, {"dict"})
    /\ isinstance(data, {"dict"})
    /\ DOMAIN data.m \ DOMAIN schema.m # {}
    /\ DOMAIN schema.m \ DOMAIN data.m # {}
    /\ \E k \in DOMAIN schema.m : IsContainer(schema.m[k])

----------------------------------------------------------------------------
(* C2: the schema's own defaults as the data *)

\* C2 as stated: for every schema S, enforce_schema_format(S, S) = S.
C2_FixedPointEverySchema ==
    (pc = "returned" /\ data = schema) => result = schema

\* A primitive default that the sanitizer rule of its key leaves alone.
DefaultIsNormal(k, v) ==
    /\ (k = "score" /\ isinstance(v, {"str"})) =>
          /\ \A i \in 1..Len(v.s) : v.s[i] # "%"
          /\ v.s # <<>> => (v.s[1] \notin Whitespace /\ v.s[Len(v.s)] \notin Whitespace)
    /\ (k \in DateKeys /\ isinstance(v, {"str"})) => Len(v.s) # DateLen
    /\ (k \in ListKeys \cup {"skillName"}) => v # Null

\* A schema whose sequences are empty or hold exactly one mapping item
\* template, and whose primitive defaults are normal for their keys.
RECURSIVE WellFormedSchema(_)
WellFormedSchema(s) ==
    IF isinstance(s, {"dict"})
    THEN \A k \in DOMAIN s.m :
            IF IsContainer(s.m[k])
            THEN WellFormedSchema(s.m[k])
            ELSE DefaultIsNormal(k, s.m[k])
    ELSE IF isinstance(s, {"list"})
    THEN \/ s.l = <<>>
         \/ /\ Len(s.l) = 1
            /\ isinstance(s.l[1], {"dict"})
            /\ WellFormedSchema(s.l[1])
    ELSE TRUE

\* C2 (amended): for every well-formed schema S, enforce_schema_format(S, S)
\* equals S.
C2_FixedPointWellFormed ==
    (pc = "returned" /\ data = schema /\ WellFormedSchema(schema)) => result = schema

\* A well-formed schema with a nested item template, coerced against itself.
C2_Witness ==
    /\ pc = "returned"
    /\ data = schema
    /\ WellFormedSchema(schema)
    /\ isinstance(schema, {"list"})
    /\ schema.l # <<>>
    /\ DOMAIN schema.l[1].m # {}

----------------------------------------------------------------------------
(* C10: a sequence schema with an item template *)

\* The mappings among the elements of a sequence, in order.
RECURSIVE MappingsOf(_)
MappingsOf(l) ==
    IF l = <<>> THEN <<>>
    ELSE (IF isinstance(l[Len(l)], {"dict"}) THEN <<l[Len(l)]>> ELSE <<>>)
            \o MappingsOf(SubSeq(l, 1, Len(l) - 1))

Reverse(l) == [i \in 1..Len(l) |-> l[Len(l) + 1 - i]]

\* What C10 says of the node with schema s, data d and result r.
SequenceNodeOK(d, s, r) ==
    (isinstance(s, {"list"}) /\ s.l # <<>>) =>
        IF ~isinstance(d, {"list"})
        THEN r = EmptyList
        ELSE LET ms == Reverse(MappingsOf(d.l))
             IN  /\ isinstance(r, {"list"})
                 /\ Len(r.l) = Len(ms)
                 /\ \A i \in 1..Len(ms) :
                       r.l[i] = enforce_schema_format(ms[i], s.l[1], NoKey)

SkillsSchema == Dict([skills |-> List(<<Dict([skillName |-> EmptyStr])>>)])
NotAList == Str(<<"n", "o", "t", " ", "a", " ", "l", "i", "s", "t">>)

\* C10: against a sequence schema with an item template, data that is not a
\* sequence gives the empty sequence, and a sequence gives one coerced item
\* per mapping element, in the data's order, the other elements dropped; at
\* the root and at the keys of a root mapping.
C10_SequenceSchema ==
    /\ pc = "returned" =>
          /\ SequenceNodeOK(data, schema, result)
          /\ (isinstance(schema, {"dict"}) /\ isinstance(data, {"dict"})) =>
                \A k \in DOMAIN schema.m \cap DOMAIN data.m :
                    SequenceNodeOK(data.m[k], schema.m[k], result.m[k])
    /\ enforce_schema_format(Dict([skills |-> NotAList]), SkillsSchema, NoKey)
          = Dict([skills |-> EmptyList])

\* Two mappings with an element that is not one between them, coerced
\* against a mapping item template: two items, in the data's order.
C10_Witness ==
    /\ pc = "returned"
    /\ schema = List(<<Dict([name |-> EmptyStr])>>)
    /\ data = List(<<Dict([name |-> Str(<<"x">>)]), Null,
                     Dict([score |-> Str(<<"9", "%">>)])>>)
    /\ result = List(<<Dict([name |-> Str(<<"x">>)]), Dict([name |-> EmptyStr])>>)

----------------------------------------------------------------------------
(* C3, C4: deep_clean *)

\* C3: deep_clean(deep_clean(x)) = deep_clean(x) for every value x.
C3_Idempotent ==
    pc = "returned" => deep_clean(result) = result

\* A mapping holding a blank string, which the first pass trims to "" and
\* drops.
C3_Witness ==
    /\ pc = "returned"
    /\ isinstance(data, {"dict"})
    /\ \E k \in DOMAIN data.m :
          isinstance(data.m[k], {"list"}) /\ data.m[k].l = <<Str(<<" ">>)>>
    /\ result = EmptyDict

IsEmptyValue(v) ==
    \/ v.t = "null"
    \/ v.t = "str" /\ Len(v.s) = 0
    \/ v.t = "list" /\ Len(v.l) = 0
    \/ v.t = "dict" /\ DOMAIN v.m = {}

\* No empty value below v, at any depth.
RECURSIVE NothingEmptyIn(_)
NothingEmptyIn(v) ==
    IF isinstance(v, {"dict"})
    THEN \A k \in DOMAIN v.m : ~IsEmptyValue(v.m[k]) /\ NothingEmptyIn(v.m[k])
    ELSE IF isinstance(v, {"list"})
    THEN \A i \in 1..Len(v.l) : ~IsEmptyValue(v.l[i]) /\ NothingEmptyIn(v.l[i])
    ELSE TRUE

IsNumberOrBool(v) == isinstance(v, {"int", "float", "bool"})

\* The numbers and booleans of d are those of r, where they were.
RECURSIVE NumbersKept(_, _)
NumbersKept(d, r) ==
    IF IsNumberOrBool(d)
    THEN r = d
    ELSE IF isinstance(d, {"dict"})
    THEN \A k \in DOMAIN d.m :
            IsNumberOrBool(d.m[k]) => (k \in DOMAIN r.m /\ r.m[k] = d.m[k])
    ELSE IF isinstance(d, {"list"})
    THEN SelectSeq(r.l, IsNumberOrBool) = SelectSeq(d.l, IsNumberOrBool)
    ELSE TRUE

\* C4: the output of deep_clean on a mapping or sequence holds no null, "",
\* [] or {} at any depth, the example prunes to {"d": "x"}, and numbers and
\* booleans (0 and false included) are kept unchanged.
C4_NothingEmptyLeft ==
    pc = "returned" =>
        /\ IsContainer(data) => NothingEmptyIn(result)
        /\ NumbersKept(data, result)
        /\ data = PruneExample => result = PruneExampleResult

\* The example of the claim, pruned.
C4_Witness ==
    /\ pc = "returned"
    /\ data = PruneExample
    /\ result = PruneExampleResult

\* A sequence holding 0 or false next to values that are pruned.
C4_WitnessZero ==
    /\ pc = "returned"
    /\ isinstance(data, {"list"})
    /\ Len(result.l) < Len(data.l)
    /\ \E i \in 1..Len(result.l) : result.l[i] \in {Num(0), Bool(FALSE)}

----------------------------------------------------------------------------
(* C9: sanitize_value *)

RECURSIVE Without(_, _)
Without(s, c) ==
    IF s = <<>> THEN <<>>
    ELSE Without(SubSeq(s, 1, Len(s) - 1), c)
            \o (IF s[Len(s)] = c THEN <<>> ELSE <<s[Len(s)]>>)

\* r is q without its leading and trailing whitespace.
IsTrimOf(r, q) ==
    /\ r # <<>> => (r[1] \notin Whitespace /\ r[Len(r)] \notin Whitespace)
    /\ \E a, b \in 0..Len(q) :
          /\ a + b <= Len(q)
          /\ r = SubSeq(q, a + 1, Len(q) - b)
          /\ \A i \in 1..a : q[i] \in Whitespace
          /\ \A i \in (Len(q) - b + 1)..Len(q) : q[i] \in Whitespace

Sanitized(k, v, r) ==
    IF k = "score" /\ v.t = "str"
    THEN r.t = "str" /\ IsTrimOf(r.s, Without(v.s, "%"))
    ELSE IF k \in {"startDate", "endDate", "issueDate"} /\ v.t = "str"
    THEN r = IF Len(v.s) = 7 THEN Str(v.s \o <<"-", "0", "1">>) ELSE v
    ELSE IF k \in {"socials", "links"} /\ v.t # "list"
    THEN r = EmptyList
    ELSE IF k = "skillName" /\ v.t # "str"
    THEN r = EmptyStr
    ELSE r = v

\* C9: sanitize_value applies the first matching rule only (score: every '%'
\* removed and the result trimmed; a date key and a 7-character string: "-01"
\* appended; skillName and a non-string: ""), returns any other value
\* unchanged, and returns a value for every key and value.
C9_SanitizeRules ==
    /\ pc = "returned" => (result.t # "raise" /\ Sanitized(key, data, result))
    /\ sanitize_value("score", Str(<<"9", "6", "%">>)) = Str(<<"9", "6">>)
    /\ sanitize_value("startDate", Str(YearMonth)) = Str(YearMonth \o <<"-", "0", "1">>)
    /\ sanitize_value("startDate", Str(YearMonth \o DaySuffix)) = Str(YearMonth \o DaySuffix)

\* A score with '%' inside and whitespace around it.
C9_Witness ==
    /\ pc = "returned"
    /\ key = "score"
    /\ data = Str(<<" ", "%", "9", " ", "%", "6", "%", " ">>)
    /\ result = Str(<<"9", " ", "6">>)

----------------------------------------------------------------------------
(* C5: safe_json_extract never raises *)

\* C5: for every input string, safe_json_extract returns the value parsed
\* from the repaired text, or {} when the repaired text is not valid JSON;
\* it never raises.
C5_NeverRaises ==
    pc = "returned" =>
        LET parsed == json_loads(repaired(data.s))
        IN  /\ result.t # "raise"
            /\ result = IF parsed.t = "raise" THEN EmptyDict ELSE parsed

\* A deeply truncated text that the repair cannot complete: {} is returned.
C5_Witness ==
    /\ pc = "returned"
    /\ data = Str(DeeplyTruncated)
    /\ json_loads(repaired(data.s)).t = "raise"
    /\ result = EmptyDict

----------------------------------------------------------------------------
(* C6: the truncated example is recovered *)

GoSkill == Dict([skillName |-> Str(<<"G", "o">>)])
ADev == Str(<<"A", ".", " ", "D", "e", "v">>)

\* C6: the repair of the truncated example appends the two closing braces
\* and yields valid JSON, and its coercion against the Reference Schema has
\* personalDetails.fullName = "A. Dev", personalDetails.email = "" and
\* skills = [{"skillName": "Go"}].
C6_TruncatedExampleRecovered ==
    output = Str(TruncatedExample) =>
        /\ wpc # "raised"
        /\ wpc \in {"coerce", "clean", "returned"} =>
              /\ raw = json_loads(TruncatedExample \o <<"}", "}">>)
              /\ isinstance(raw, {"dict"})
              /\ raw.m["personalDetails"] = Dict([fullName |-> ADev])
        /\ wpc \in {"clean", "returned"} =>
              /\ normalized.m["personalDetails"].m["fullName"] = ADev
              /\ normalized.m["personalDetails"].m["email"] = EmptyStr
              /\ normalized.m["skills"] = List(<<GoSkill>>)

\* The truncated example has been repaired, parsed and coerced.
C6_Witness ==
    /\ output = Str(TruncatedExample)
    /\ wpc = "clean"
    /\ normalized.m["skills"] = List(<<GoSkill>>)

----------------------------------------------------------------------------
(* C7: a Model Backend failure reaches the caller as a failure *)

HasKey(v, k) == isinstance(v, {"dict"}) /\ k \in DOMAIN v.m

\* The content that an envelope holds, were there any.
HasChatContent(e) ==
    /\ HasKey(e, "choices")
    /\ isinstance(e.m["choices"], {"list"})
    /\ e.m["choices"].l # <<>>
    /\ HasKey(e.m["choices"].l[1], "message")
    /\ HasKey(e.m["choices"].l[1].m["message"], "content")
    /\ e.m["choices"].l[1].m["message"].m["content"] # Null
HasTextContent(e) == HasKey(e, "generated_text") /\ e.m["generated_text"] # Null
HasListContent(e) ==
    /\ isinstance(e, {"list"})
    /\ e.l # <<>>
    /\ HasKey(e.l[1], "generated_text")
    /\ e.l[1].m["generated_text"] # Null

\* The backend has answered with a transport error or with an envelope in
\* which no content can be located.
BackendFailed ==
    /\ envelope # Unused
    /\ \/ envelope.t = "raise"
       \/ ~(HasChatContent(envelope) \/ HasTextContent(envelope) \/ HasListContent(envelope))

GenerationFailure == Response(500, "LLM generation failed", Null)
TimedOut == Response(504, "LLM request timed out", Null)

\* C7: after a Model Backend failure generate_resume_schema raises, no value
\* is parsed, coerced or pruned in its place, and the response, once given,
\* is the generation failure (or the timeout that gave up waiting first),
\* never resume data.
C7_BackendFailurePropagates ==
    BackendFailed =>
        /\ wpc \in {"repair", "raised"}
        /\ wpc = "repair" => output = Null
        /\ wpc = "raised" => result.t = "raise"
        /\ generate_resume_schema(envelope).t = "raise"
        /\ raw.t \in {"unused", "raise"}
        /\ normalized = Unused
        /\ cleaned = Unused
        /\ pc = "done" => response \in {GenerationFailure, TimedOut}
        /\ (pc = "done" /\ response = GenerationFailure) => wpc = "raised"

\* An envelope without content has been answered with the generation failure.
C7_Witness ==
    /\ BackendFailed
    /\ envelope = Dict([error |-> ErrorText])
    /\ pc = "done"
    /\ response = GenerationFailure

----------------------------------------------------------------------------
(* C8: unparseable model output degrades to the schema defaults *)

\* The backend returned a string that, repaired, is not JSON or is JSON for
\* something other than a mapping.
Unparseable ==
    /\ isinstance(output, {"str"})
    /\ ~isinstance(json_loads(repaired(output.s)), {"dict"})

\* C8: when the returned string cannot be parsed even after repair, or
\* parses to a value that is not a mapping, generate_resume_schema does not
\* raise, every field is coerced to its Reference Schema default, and the
\* value returned is deep_clean of those defaults.
C8_UnparseableGivesDefaults ==
    Unparseable =>
        /\ wpc # "raised"
        /\ wpc \in {"coerce", "clean", "returned"} =>
              /\ raw.t # "raise"
              /\ json_loads(repaired(output.s)).t = "raise" => raw = EmptyDict
        /\ wpc \in {"clean", "returned"} => normalized = DEFAULT_SCHEMA
        /\ wpc = "returned" =>
              /\ cleaned = deep_clean(DEFAULT_SCHEMA)
              /\ result = cleaned
              /\ isinstance(result, {"dict"})

\* Plain text without braces has gone through the whole pipeline.
C8_Witness ==
    /\ output = Str(PlainText)
    /\ wpc = "returned"
    /\ raw = EmptyDict
    /\ result = deep_clean(DEFAULT_SCHEMA)

\* JSON for a sequence has gone through the whole pipeline.
C8_WitnessNonMapping ==
    /\ output = Str(ArrayText)
    /\ wpc = "returned"
    /\ isinstance(raw, {"list"})
    /\ result = deep_clean(DEFAULT_SCHEMA)

----------------------------------------------------------------------------
(* C11: a present key with a primitive default *)

IsPrimitive(v) == ~isinstance(v, {"dict", "list"})

\* The rule as stated: the sanitized value when its type is the default's,
\* the default otherwise.
TypedOrDefault(k, value, default) ==
    LET sanitized == sanitize_value(k, value)
    IN  IF sanitized.t = default.t THEN sanitized ELSE default

\* The rule with the null default set apart: under a null default the
\* sanitized value stands whatever its type.
TypedOrDefaultUnlessNull(k, value, default) ==
    LET sanitized == sanitize_value(k, value)
    IN  IF default = Null THEN sanitized
        ELSE IF sanitized.t = default.t THEN sanitized ELSE default

\* Every key of mapping schema s that data d holds and whose default is a
\* primitive has, in result r, the value the rule gives; in the mappings
\* nested under s as well, and in the items of its sequences.
RECURSIVE PrimitiveKeysOK(_, _, _, _)
PrimitiveKeysOK(d, s, r, strict) ==
    IF isinstance(s, {"dict"}) /\ isinstance(d, {"dict"})
    THEN /\ isinstance(r, {"dict"})
         /\ DOMAIN r.m = DOMAIN s.m
         /\ \A k \in DOMAIN s.m \cap DOMAIN d.m :
               IF IsPrimitive(s.m[k])
               THEN r.m[k] = IF strict
                             THEN TypedOrDefault(k, d.m[k], s.m[k])
                             ELSE TypedOrDefaultUnlessNull(k, d.m[k], s.m[k])
               ELSE PrimitiveKeysOK(d.m[k], s.m[k], r.m[k], strict)
    ELSE IF isinstance(s, {"list"}) /\ isinstance(d, {"list"}) /\ s.l # <<>>
    THEN LET ms == Reverse(MappingsOf(d.l))
         IN  /\ isinstance(r, {"list"})
             /\ Len(r.l) = Len(ms)
             /\ \A i \in 1..Len(ms) : PrimitiveKeysOK(ms[i], s.l[1], r.l[i], strict)
    ELSE TRUE

\* C11 as stated: at every present key with a primitive default the result
\* is the sanitized value when its type equals the default's type and the
\* default whenever the types differ, a null default included.
C11_TypedOrDefault ==
    pc = "returned" => PrimitiveKeysOK(data, schema, result, TRUE)

\* C11 amended: at every present key with a primitive default that is not
\* null the result is the sanitized value when its type equals the
\* default's type and the default when the types differ, so that it always
\* has the default's type; under a null default the result is the
\* sanitized value of whatever type.
C11_TypedOrDefaultUnlessNull ==
    pc = "returned" =>
        /\ PrimitiveKeysOK(data, schema, result, FALSE)
        /\ (isinstance(schema, {"dict"}) /\ isinstance(data, {"dict"})) =>
              \A k \in DOMAIN schema.m \cap DOMAIN data.m :
                  (IsPrimitive(schema.m[k]) /\ schema.m[k] # Null) =>
                      result.m[k].t = schema.m[k].t

\* A number under a key whose default is a string has been replaced by
\* the default.
C11_Witness ==
    /\ pc = "returned"
    /\ schema = Dict([name |-> EmptyStr])
    /\ data = Dict([name |-> Num(7)])
    /\ result = Dict([name |-> EmptyStr])

\* A mapping under a key whose default is null has been kept.
C11_WitnessNull ==
    /\ pc = "returned"
    /\ schema = Dict([startDate |-> Null])
    /\ data = Dict([startDate |-> EmptyDict])
    /\ result = data

----------------------------------------------------------------------------
(* C12: the timeout bounds the wait for the Model Backend *)

\* generate_resume_schema has returned or raised in its worker thread.
CallCompleted == wpc \in {"returned", "raised"}

\* The request ends while the call has not completed: the timeout elapsed.
TimeoutElapses == pc = "await_llm" /\ ~CallCompleted /\ pc' = "done"

\* C12: when the wait ends before the call has completed the response is
\* the timeout failure, which carries no resume data, and it stays the
\* response whatever the abandoned worker does afterwards (completes,
\* raises, or takes no further step); a response with resume data is only
\* ever given for a call that completed before the wait ended.
C12_TimeoutBoundsCall ==
    /\ [][TimeoutElapses => response' = TimedOut]_vars
    /\ [][pc = "done" => (pc' = "done" /\ response' = response)]_vars
    /\ [](TimedOut.status # 200 /\ TimedOut.body = Null)
    /\ []((pc = "done" /\ request = "ok" /\ ~CallCompleted) => response = TimedOut)
    /\ []((pc = "done" /\ response.status = 200) =>
             (wpc = "returned" /\ response = llm_response(result)))

\* The wait was given up, and the abandoned call has since returned a value
\* that would have been answered with resume data.
C12_Witness ==
    /\ pc = "done"
    /\ response = TimedOut
    /\ wpc = "returned"
    /\ llm_response(result).status = 200

\* The wait was given up, and the abandoned call has since raised.
C12_WitnessRaised ==
    /\ pc = "done"
    /\ response = TimedOut
    /\ wpc = "raised"

\* The wait was given up while the backend had not answered.
C12_WitnessNoAnswer ==
    /\ pc = "done"
    /\ response = TimedOut
    /\ wpc = "call"

----------------------------------------------------------------------------
(* C13: the Reference Schema is never modified *)

\* The objects of the schema: the root and all that was built before it.
SchemaObjects == 1..schema.a

\* A member of the object r that is one of the schema's own objects.
SharesSchemaObject(r) ==
    /\ IsRef(r)
    /\ heap[r.a].t = "dict"
    /\ r.a \notin SchemaObjects
    /\ \E k \in DOMAIN heap[r.a].m :
          IsRef(heap[r.a].m[k]) /\ heap[r.a].m[k].a \in SchemaObjects

\* The heap agrees with the functions on values.
HeapAgreesWithValues ==
    \A i \in DOMAIN calls :
        /\ (calls[i].raw # Unused /\ calls[i].normalized # Unused) =>
              Deref(heap, calls[i].normalized)
                  = enforce_schema_format(Deref(heap, calls[i].raw),
                                          Deref(heap, schema), NoKey)
        /\ calls[i].cleaned # Unused =>
              Deref(heap, calls[i].cleaned) = deep_clean(Deref(heap, calls[i].normalized))

\* C13: no step of any invocation of repair, coerce or prune changes an
\* object of the schema, so that the schema's value stays what it was when
\* loaded; DEFAULT_SCHEMA goes on naming the same root.
C13_SchemaNeverModified ==
    /\ [][/\ schema' = schema
          /\ \A a \in SchemaObjects : heap'[a] = heap[a]
          /\ Deref(heap', schema') = Deref(heap, schema)]_vars
    /\ [](Deref(heap, schema) \in HeapSchemas)

\* A coerced value holding the schema's own dates and links objects has
\* been pruned, to a value without them, and the schema still has them.
C13_Witness ==
    /\ Deref(heap, schema) = NestedSchema
    /\ \E i \in DOMAIN calls :
          /\ calls[i].pc = "done"
          /\ SharesSchemaObject(calls[i].normalized)
          /\ heap[calls[i].normalized.a].m["dates"] = heap[schema.a].m["dates"]
          /\ "dates" \notin DOMAIN heap[calls[i].cleaned.a].m
          /\ "links" \in DOMAIN heap[calls[i].cleaned.a].m

----------------------------------------------------------------------------
(* C14: repair and well-formed input *)

\* The text is a complete JSON document as it stands.
ValidDocument(text) == json_loads(text).t # "raise"

\* A string holding an opening brace, and a string ending in an escaped
\* backslash: both are complete JSON documents.
BraceInString == <<"\"", "{", "\"">>
EscapedBackslash == <<"\"", "\\", "\\", "\"">>

\* C14: for every text that is already a complete, valid JSON document,
\* strings holding brackets or ending in an escaped backslash included,
\* safe_json_extract appends nothing to it and returns the value that
\* parsing the text directly gives.
C14_ValidLeftAlone ==
    (pc = "returned" /\ ValidDocument(data.s)) =>
        /\ repaired(data.s) = rstrip(data.s)
        /\ result = json_loads(data.s)

\* What the code does with the two documents: a closing brace, or a quote,
\* is appended, the parse fails and {} is returned.
C14_AppendedTo ==
    /\ ValidDocument(BraceInString) /\ ValidDocument(EscapedBackslash)
    /\ repaired(BraceInString) = BraceInString \o <<"}">>
    /\ repaired(EscapedBackslash) = EscapedBackslash \o <<"\"">>
    /\ safe_json_extract(Str(BraceInString)) = EmptyDict
    /\ safe_json_extract(Str(EscapedBackslash)) = EmptyDict
    /\ json_loads(BraceInString) = Str(<<"{">>)
    /\ json_loads(EscapedBackslash) = Str(<<"\\">>)

====
